---- MODULE Spec2Model ----
(***************************************************************************)
(* KML to DXF converter (src/app.py): the KMLtoDXFConverter class.         *)
(* Text is a sequence of one-character strings; a coordinate is a tuple    *)
(* <<lon, lat, elev>>; an XML element is a record                          *)
(* [tag, ns, id, text, kids].                                              *)
(***************************************************************************)
EXTENDS Integers, Sequences, FiniteSets, TLC

VARIABLES
    pc,               \* position of the run
    arg, ret,         \* argument and return value of a single call
    root,             \* the parsed document
    placemarks, idx,  \* parse_kml: the placemarks found, the next one to process
    geometries,       \* self.geometries
    stats,            \* self.stats
    processed_count,  \* parse_kml: placemarks that yielded a geometry
    result,           \* return value of parse_kml
    marks,            \* history: len(self.geometries) after each placemark
    uploaded_file,    \* main: the file in the uploader, <<>> for None
    session_state,    \* main: st.session_state
    page,             \* main: what the last script run rendered
    last_conversion   \* history: the file and outcome of the last Convert, <<>> for none

docVars == <<root, placemarks, idx, geometries, stats, processed_count, result, marks>>

uiVars == <<uploaded_file, session_state, page, last_conversion>>

vars ==
    <<pc, arg, ret, root, placemarks, idx, geometries, stats, processed_count, result, marks,
      uploaded_file, session_state, page, last_conversion>>

(***************************************************************************)
(* Bounds of the model.                                                    *)
(***************************************************************************)
MaxTextLen == 5
MaxTokens == 3
MaxNameLen == 3
MaxCoords == 3
MaxInner == 2
MaxKids == 2
MaxPlacemarks == 2

(***************************************************************************)
(* Python string primitives used by the converter.                         *)
(***************************************************************************)
Digits == <<"0", "1", "2", "3", "4", "5", "6", "7", "8", "9">>

IsDigit(c) == \E i \in 1..Len(Digits) : Digits[i] = c

DigitVal(c) == (CHOOSE i \in 1..Len(Digits) : Digits[i] = c) - 1

IsSpace(c) == c \in {" ", "\n", "\t"}

\* str.strip(): drop leading and trailing whitespace
RECURSIVE LStrip(_)
LStrip(s) == IF s # <<>> /\ IsSpace(Head(s)) THEN LStrip(Tail(s)) ELSE s

RECURSIVE RStrip(_)
RStrip(s) ==
    IF s # <<>> /\ IsSpace(s[Len(s)]) THEN RStrip(SubSeq(s, 1, Len(s) - 1)) ELSE s

Strip(s) == RStrip(LStrip(s))

\* str.split(): split on runs of whitespace, no empty pieces
RECURSIVE SplitAcc(_, _, _)
SplitAcc(s, cur, acc) ==
    IF s = <<>>
    THEN IF cur = <<>> THEN acc ELSE Append(acc, cur)
    ELSE IF IsSpace(Head(s))
         THEN SplitAcc(Tail(s), <<>>, IF cur = <<>> THEN acc ELSE Append(acc, cur))
         ELSE SplitAcc(Tail(s), Append(cur, Head(s)), acc)

Split(s) == SplitAcc(s, <<>>, <<>>)

\* str.split(','): split on every comma, empty pieces kept
RECURSIVE SplitCommaAcc(_, _, _)
SplitCommaAcc(s, cur, acc) ==
    IF s = <<>>
    THEN Append(acc, cur)
    ELSE IF Head(s) = ","
         THEN SplitCommaAcc(Tail(s), <<>>, Append(acc, cur))
         ELSE SplitCommaAcc(Tail(s), Append(cur, Head(s)), acc)

SplitComma(s) == SplitCommaAcc(s, <<>>, <<>>)

\* float(): an optional sign followed by one or more digits is accepted,
\* anything else over the model's alphabet raises ValueError
AllDigits(s) == s # <<>> /\ \A i \in 1..Len(s) : IsDigit(s[i])

IsFloat(s) ==
    LET t == Strip(s)
    IN  IF t # <<>> /\ Head(t) \in {"-", "+"} THEN AllDigits(Tail(t)) ELSE AllDigits(t)

RECURSIVE DigitsVal(_)
DigitsVal(s) ==
    IF s = <<>> THEN 0 ELSE 10 * DigitsVal(SubSeq(s, 1, Len(s) - 1)) + DigitVal(s[Len(s)])

FloatVal(s) ==
    LET t == Strip(s)
    IN  IF Head(t) = "-" THEN 0 - DigitsVal(Tail(t))
        ELSE IF Head(t) = "+" THEN DigitsVal(Tail(t))
        ELSE DigitsVal(t)

(***************************************************************************)
(* xml.etree.ElementTree: an element is [tag, ns, id, text, kids]; tag is  *)
(* the local name, ns the namespace ("" for none), id the id attribute     *)
(* (<<>> for none), text the element's text (<<>> for None or empty).      *)
(***************************************************************************)
El(tag, ns, id, text, kids) ==
    [tag |-> tag, ns |-> ns, id |-> id, text |-> text, kids |-> kids]

None == El("None", "", <<>>, <<>>, <<>>)

\* the descendants of an element in document order, the element excluded
RECURSIVE DescSeq(_)
DescSeq(ks) ==
    IF ks = <<>> THEN <<>>
    ELSE <<Head(ks)>> \o DescSeq(Head(ks).kids) \o DescSeq(Tail(ks))

Desc(e) == DescSeq(e.kids)

\* elem.iter()
Iter(e) == <<e>> \o Desc(e)

\* elem.findall('.//{*}tag')
FindAll(e, tag) == SelectSeq(Desc(e), LAMBDA x : x.tag = tag)

\* elem.findall('.//{ns}tag'); './/tag' is the case ns = ""
FindAllNs(e, ns, tag) == SelectSeq(Desc(e), LAMBDA x : x.tag = tag /\ x.ns = ns)

\* elem.find('.//{*}tag')
Find(e, tag) == LET m == FindAll(e, tag) IN IF m = <<>> THEN None ELSE Head(m)

\* the state of a run that parses no document
NoStats ==
    [total_placemarks |-> 0, points |-> 0, lines |-> 0, polygons |-> 0,
     layers |-> {}, multigeometries |-> 0]

NoDocument ==
    /\ root = None
    /\ placemarks = <<>>
    /\ idx = 0
    /\ geometries = <<>>
    /\ stats = NoStats
    /\ processed_count = 0
    /\ result = FALSE
    /\ marks = <<>>

\* lines 625-631: the session state of a new session; None is <<>>
NewSession == [converter |-> <<>>, conversion_done |-> FALSE, dxf_bytes |-> <<>>]

\* a page on which nothing was rendered
BlankPage == [error |-> "", statistics |-> <<>>, download |-> <<>>]

\* the state of a run outside main
NoSession ==
    /\ uploaded_file = <<>>
    /\ session_state = NewSession
    /\ page = BlankPage
    /\ last_conversion = <<>>

(***************************************************************************)
(* parse_coordinates                                                       *)
(***************************************************************************)
\* One iteration of the token loop: <<coord>> when the token is appended,
\* <<>> when it is skipped.
parse_line_strict(line) ==
    LET parts == SplitComma(Strip(line))
    IN  IF Len(parts) >= 2 /\ IsFloat(parts[1]) /\ IsFloat(parts[2])
        THEN IF Len(parts) >= 3
             THEN IF IsFloat(parts[3])
                  THEN << <<FloatVal(parts[1]), FloatVal(parts[2]), FloatVal(parts[3])>> >>
                  ELSE <<>>
             ELSE << <<FloatVal(parts[1]), FloatVal(parts[2]), 0>> >>
        ELSE <<>>

parse_line(line) ==
    LET parts == SplitComma(Strip(line))
    IN  IF Len(parts) >= 2
        THEN IF IsFloat(parts[1]) /\ IsFloat(parts[2])
             THEN LET elev == IF Len(parts) >= 3
                              THEN IF IsFloat(parts[3]) THEN FloatVal(parts[3]) ELSE 0
                              ELSE 0
                  IN  << <<FloatVal(parts[1]), FloatVal(parts[2]), elev>> >>
             ELSE <<>>
        ELSE <<>>

RECURSIVE parse_lines(_)
parse_lines(lines) ==
    IF lines = <<>> THEN <<>> ELSE parse_line(Head(lines)) \o parse_lines(Tail(lines))

\* the loop leaves at the first token it cannot parse
RECURSIVE parse_lines_break(_)
parse_lines_break(lines) ==
    IF lines = <<>> THEN <<>>
    ELSE IF parse_line(Head(lines)) = <<>> THEN <<>>
    ELSE parse_line(Head(lines)) \o parse_lines_break(Tail(lines))

parse_coordinates_break(coord_text) ==
    IF coord_text = <<>> THEN <<>> ELSE parse_lines_break(Split(Strip(coord_text)))

parse_coordinates(coord_text) ==
    IF coord_text = <<>> THEN <<>> ELSE parse_lines(Split(Strip(coord_text)))

(***************************************************************************)
(* Inputs of parse_coordinates: every text of at most MaxTextLen           *)
(* characters, and every text of at most MaxTokens tokens of TokenMenu     *)
(* separated by one blank.                                                 *)
(***************************************************************************)
CoordAlphabet == {"1", "2", "-", "x", ",", " ", "\n"}

SeqsUpTo(S, n) == UNION {[1..k -> S] : k \in 0..n}

TokenMenu ==
    { <<"1", ",", "2">>, <<"2", ",", "1", ",", "3">>, <<"1", ",", "2", ",", "x">>,
      <<"b", "a", "d">>, <<"7">>, <<"x", ",", "1">>, <<"1", ",", "x">>,
      <<"-", "4", ",", "+", "5">>, <<"1", ",", "2", ",">> }

RECURSIVE JoinTokens(_)
JoinTokens(toks) ==
    IF toks = <<>> THEN <<>>
    ELSE IF Len(toks) = 1 THEN Head(toks)
    ELSE Head(toks) \o <<" ">> \o JoinTokens(Tail(toks))

CoordTexts ==
    SeqsUpTo(CoordAlphabet, MaxTextLen)
        \cup {JoinTokens(t) : t \in SeqsUpTo(TokenMenu, MaxTokens)}

InitCoords ==
    /\ pc = "call"
    /\ arg \in CoordTexts
    /\ ret = <<>>
    /\ NoDocument
    /\ NoSession

CallParseCoordinates ==
    /\ pc = "call"
    /\ ret' = parse_coordinates(arg)
    /\ pc' = "returned"
    /\ UNCHANGED <<arg, docVars, uiVars>>

NextCoords == CallParseCoordinates

SpecCoords == InitCoords /\ [][NextCoords]_vars

(***************************************************************************)
(* The tokens of a text, read off the text itself: a token is a maximal    *)
(* run of non-blank characters, a field a maximal run without a comma.     *)
(***************************************************************************)
TokenSpans(text) ==
    { sp \in (1..Len(text)) \X (1..Len(text)) :
        /\ sp[1] <= sp[2]
        /\ \A i \in sp[1]..sp[2] : ~IsSpace(text[i])
        /\ (sp[1] = 1 \/ IsSpace(text[sp[1] - 1]))
        /\ (sp[2] = Len(text) \/ IsSpace(text[sp[2] + 1])) }

TokenAt(text, sp) == SubSeq(text, sp[1], sp[2])

Commas(tok) == {i \in 1..Len(tok) : tok[i] = ","}

NumFields(tok) == Cardinality(Commas(tok)) + 1

\* the k-th field: between the (k-1)-th and the k-th comma
FieldOf(tok, k) ==
    LET cuts == Commas(tok) \cup {0, Len(tok) + 1}
        nth(n) == CHOOSE c \in cuts : Cardinality({d \in cuts : d < c}) = n
    IN  SubSeq(tok, nth(k - 1) + 1, nth(k) - 1)

GoodToken(tok) ==
    NumFields(tok) >= 2 /\ IsFloat(FieldOf(tok, 1)) /\ IsFloat(FieldOf(tok, 2))

GoodSpans(text) == {sp \in TokenSpans(text) : GoodToken(TokenAt(text, sp))}

\* the k-th good token of the text, in input order
KthGood(text, k) ==
    LET good == GoodSpans(text)
    IN  TokenAt(text, CHOOSE sp \in good : Cardinality({q \in good : q[1] < sp[1]}) = k - 1)

\* C3: parse_coordinates returns, in input order, exactly one coordinate for
\* each whitespace-separated token with at least 2 comma-separated fields whose
\* first two fields are numeric; every other token is skipped without affecting
\* its neighbours, and empty text yields the empty sequence.
C3_OnePerGoodToken ==
    pc = "returned" =>
        /\ Len(ret) = Cardinality(GoodSpans(arg))
        /\ \A k \in 1..Len(ret) :
              /\ ret[k][1] = FloatVal(FieldOf(KthGood(arg, k), 1))
              /\ ret[k][2] = FloatVal(FieldOf(KthGood(arg, k), 2))
        /\ (arg = <<>> => ret = <<>>)

\* a malformed token between two good ones: "1,2 bad 2,1,3"
C3_Witness ==
    /\ pc = "returned"
    /\ arg = JoinTokens(<< <<"1", ",", "2">>, <<"b", "a", "d">>, <<"2", ",", "1", ",", "3">> >>)
    /\ ret = << <<1, 2, 0>>, <<2, 1, 3>> >>

\* C4: every coordinate returned by parse_coordinates has exactly 3 components;
\* the third is the token's third field when present and numeric, 0.0 when the
\* third field is absent or non-numeric, and a non-numeric third field does not
\* make the token skipped.
C4_ElevationDefault ==
    pc = "returned" =>
        /\ \A k \in 1..Len(ret) :
              LET tok == KthGood(arg, k)
              IN  /\ Len(ret[k]) = 3
                  /\ ret[k][3] = IF NumFields(tok) >= 3 /\ IsFloat(FieldOf(tok, 3))
                                 THEN FloatVal(FieldOf(tok, 3))
                                 ELSE 0
        /\ \A sp \in TokenSpans(arg) :
              LET tok == TokenAt(arg, sp)
              IN  (GoodToken(tok) /\ NumFields(tok) >= 3 /\ ~IsFloat(FieldOf(tok, 3)))
                      => \E k \in 1..Len(ret) : KthGood(arg, k) = tok /\ ret[k][3] = 0

\* "1,2,x": the third field is not numeric, the token is kept with elevation 0
C4_Witness ==
    /\ pc = "returned"
    /\ arg = <<"1", ",", "2", ",", "x">>
    /\ ret = << <<1, 2, 0>> >>

(***************************************************************************)
(* kml_color_to_dxf                                                        *)
(***************************************************************************)
HexLower == <<"0", "1", "2", "3", "4", "5", "6", "7", "8", "9", "a", "b", "c", "d", "e", "f">>

HexUpper == <<"0", "1", "2", "3", "4", "5", "6", "7", "8", "9", "A", "B", "C", "D", "E", "F">>

IsHexDigit(c) == \E i \in 1..Len(HexLower) : HexLower[i] = c \/ HexUpper[i] = c

HexDigitVal(c) == (CHOOSE i \in 1..Len(HexLower) : HexLower[i] = c \/ HexUpper[i] = c) - 1

\* int(s, 16) of a two-character slice: a value, or -1 for ValueError
HexByte(s) ==
    IF Len(s) = 2 /\ IsHexDigit(s[1]) /\ IsHexDigit(s[2])
    THEN 16 * HexDigitVal(s[1]) + HexDigitVal(s[2])
    ELSE -1

Max2(a, b) == IF a > b THEN a ELSE b

\* The brightness buckets and the channel comparisons of the code.
\* brightness = (rr + gg + bb) / 3 is a float: brightness < 30 is
\* rr + gg + bb < 90, and so on for 100, 150 and 200.
PaletteIndex(rr, gg, bb) ==
    LET sum == rr + gg + bb
    IN  IF sum < 90 THEN 0
        ELSE IF sum < 300 THEN 8
        ELSE IF sum < 450 THEN 7
        ELSE IF rr > Max2(gg, bb) THEN 1
        ELSE IF gg > Max2(rr, bb) THEN 3
        ELSE IF bb > Max2(rr, gg) THEN 5
        ELSE IF sum > 600 THEN 2
        ELSE 4

\* the try block: the three int(.., 16) calls, then the palette
color_from_hex(color_hex) ==
    LET rr == HexByte(SubSeq(color_hex, 7, 8))
        gg == HexByte(SubSeq(color_hex, 5, 6))
        bb == HexByte(SubSeq(color_hex, 3, 4))
    IN  IF rr < 0 \/ gg < 0 \/ bb < 0 THEN 7 ELSE PaletteIndex(rr, gg, bb)

kml_color_to_dxf(kml_color) ==
    IF kml_color = <<>> THEN 7
    ELSE LET stripped == Strip(kml_color)
         IN  IF stripped = <<>> \/ Head(stripped) # "#" THEN 7
             ELSE LET color_hex == Tail(stripped)
                  IN  IF Len(color_hex) = 8 THEN color_from_hex(color_hex) ELSE 7

(***************************************************************************)
(* Inputs of kml_color_to_dxf: aabbggrr texts whose channels run over      *)
(* ColorSteps + 1 evenly spaced levels, bare or behind "#", and malformed  *)
(* texts.                                                                  *)
(***************************************************************************)
ColorSteps == 5

ChannelLevels == {(k * 255) \div ColorSteps : k \in 0..ColorSteps}

ToHex(n) == <<HexLower[(n \div 16) + 1], HexLower[(n % 16) + 1]>>

ColorPrefixes == {<<>>, <<"#">>, <<" ", "#">>}

ColorBodies ==
    {ToHex(aa) \o ToHex(bb) \o ToHex(gg) \o ToHex(rr) :
        aa \in {0, 255}, bb \in ChannelLevels, gg \in ChannelLevels, rr \in ChannelLevels}
    \cup { <<"f", "f", "0", "0", "0", "0">>, <<"f", "f", "0", "0", "0", "0", "z", "z">>,
           <<"F", "F", "0", "0", "0", "0", "F", "F">>, <<>> }

ColorTexts == {p \o b : p \in ColorPrefixes, b \in ColorBodies}

InitColor ==
    /\ pc = "call"
    /\ arg \in ColorTexts
    /\ ret = -1
    /\ NoDocument
    /\ NoSession

CallKmlColorToDxf ==
    /\ pc = "call"
    /\ ret' = kml_color_to_dxf(arg)
    /\ pc' = "returned"
    /\ UNCHANGED <<arg, docVars, uiVars>>

NextColor == CallKmlColorToDxf

SpecColor == InitColor /\ [][NextColor]_vars

IsHex8(text) == Len(text) = 8 /\ \A i \in 1..8 : IsHexDigit(text[i])

\* C7: for an 8-hex-digit aabbggrr text, kml_color_to_dxf returns the palette
\* index of the bytes rr, gg, bb read at their fixed offsets; 7 is a fallback
\* only for text that is not a valid 8-hex-digit color; the result is in 0..8.
C7_PaletteOfHex8 ==
    pc = "returned" =>
        /\ ret \in 0..8
        /\ IsHex8(arg) =>
              ret = PaletteIndex(HexByte(SubSeq(arg, 7, 8)), HexByte(SubSeq(arg, 5, 6)),
                                 HexByte(SubSeq(arg, 3, 4)))

(***************************************************************************)
(* find_style_by_id and extract_style_info                                 *)
(***************************************************************************)
LayerNameMax == 31

Letters ==
    {"a", "b", "c", "d", "e", "f", "g", "h", "i", "j", "k", "l", "m", "n", "o", "p", "q",
     "r", "s", "t", "u", "v", "w", "x", "y", "z", "A", "B", "C", "D", "E", "F", "G", "H",
     "I", "J", "K", "L", "M", "N", "O", "P", "Q", "R", "S", "T", "U", "V", "W", "X", "Y", "Z"}

\* str.isalnum() of one character
IsAlnum(c) == IsDigit(c) \/ c \in Letters

Layer_0 == <<"L", "a", "y", "e", "r", "_", "0">>

Unnamed == <<"U", "n", "n", "a", "m", "e", "d">>

\* s[:n]
Take(s, n) == IF Len(s) <= n THEN s ELSE SubSeq(s, 1, n)

\* 'Style' in elem.tag, over the tags of the model
StyleInTag(tag) == tag \in {"Style", "StyleMap", "LineStyle", "PolyStyle", "IconStyle"}

\* the id is not compared: the first style of the document is taken
find_style_first(doc, style_id) ==
    LET m == SelectSeq(Iter(doc), LAMBDA e : StyleInTag(e.tag))
    IN  IF m = <<>> THEN None ELSE Head(m)

find_style_by_id(doc, style_id) ==
    LET m == SelectSeq(Iter(doc), LAMBDA e : StyleInTag(e.tag) /\ e.id = style_id)
    IN  IF m = <<>> THEN None ELSE Head(m)

\* the name is cut to the limit before it is cleaned
layer_of_name_cut_first(text) ==
    LET safe_name == SelectSeq(Take(Strip(text), LayerNameMax),
                               LAMBDA c : IsAlnum(c) \/ c \in {" ", "_", "-"})
    IN  IF safe_name # <<>> THEN safe_name ELSE Layer_0

\* lines 200-203: the layer name of a non-empty name text
layer_of_name(text) ==
    LET safe_name == SelectSeq(Strip(text), LAMBDA c : IsAlnum(c) \/ c \in {" ", "_", "-"})
    IN  IF safe_name # <<>> THEN Take(safe_name, LayerNameMax) ELSE Layer_0

\* lines 216-236: the fields read from a style definition that was found
style_from_def(style, style_def) ==
    LET line_style == Find(style_def, "LineStyle")
        color_elem == Find(line_style, "color")
        width_elem == Find(line_style, "width")
        poly_style == Find(style_def, "PolyStyle")
        fill_elem == Find(poly_style, "fill")
        color == IF line_style # None /\ color_elem # None /\ color_elem.text # <<>>
                 THEN kml_color_to_dxf(color_elem.text)
                 ELSE style.color
        width == IF line_style # None /\ width_elem # None /\ width_elem.text # <<>>
                 THEN IF IsFloat(width_elem.text) THEN FloatVal(width_elem.text) ELSE 0
                 ELSE style.width
        filled == IF poly_style # None /\ fill_elem # None /\ fill_elem.text # <<>>
                  THEN Strip(fill_elem.text) = <<"1">>
                  ELSE style.filled
    IN  [style EXCEPT !.color = color, !.width = width, !.filled = filled]

extract_style_info(placemark, doc) ==
    LET name_elem == Find(placemark, "name")
        named == name_elem # None /\ name_elem.text # <<>>
        style == [color |-> 7, width |-> 0, filled |-> TRUE,
                  layer |-> IF named THEN layer_of_name(name_elem.text) ELSE Layer_0,
                  name |-> IF named THEN Strip(name_elem.text) ELSE Unnamed]
        style_url == Find(placemark, "styleUrl")
        style_id == IF style_url # None
                    THEN SelectSeq(Strip(style_url.text), LAMBDA c : c # "#")
                    ELSE <<>>
        style_def == IF style_id # <<>> THEN find_style_by_id(doc, style_id) ELSE None
    IN  IF style_def # None THEN style_from_def(style, style_def) ELSE style

(***************************************************************************)
(* Inputs of extract_style_info alone: one placemark of a document with    *)
(* no style, its name absent, or any text of at most MaxNameLen            *)
(* characters, or a long text around the layer-name limit.                 *)
(***************************************************************************)
KML22 == "http://www.opengis.net/kml/2.2"

Leaf(tag, ns, text) == El(tag, ns, <<>>, text, <<>>)

Node(tag, ns, kids) == El(tag, ns, <<>>, <<>>, kids)

KmlDoc(ns, kids) == Node("kml", ns, <<Node("Document", ns, kids)>>)

NameAlphabet == {"a", "7", " ", "_", "-", "!"}

Cycle(p, n) == [i \in 1..n |-> p[((i - 1) % Len(p)) + 1]]

NamePatterns == {<<"a">>, <<"a", "!">>, <<"7", " ", "_">>, <<"!", "a", "b", "-">>}

LongLens ==
    {LayerNameMax + d : d \in -1..2} \cup {2 * LayerNameMax + d : d \in -1..2} \cup {50}

NameTexts ==
    SeqsUpTo(NameAlphabet, MaxNameLen) \cup {Cycle(p, n) : p \in NamePatterns, n \in LongLens}

NamedPlacemarks ==
    {Node("Placemark", KML22, <<Leaf("name", KML22, t)>>) : t \in NameTexts}
        \cup {Node("Placemark", KML22, <<>>)}

InitStyle ==
    /\ pc = "call"
    /\ arg \in NamedPlacemarks
    /\ ret = <<>>
    /\ NoDocument
    /\ NoSession

CallExtractStyleInfo ==
    /\ pc = "call"
    /\ ret' = extract_style_info(arg, KmlDoc(KML22, <<arg>>))
    /\ pc' = "returned"
    /\ UNCHANGED <<arg, docVars, uiVars>>

NextStyle == CallExtractStyleInfo

SpecStyle == InitStyle /\ [][NextStyle]_vars

\* the characters a layer name keeps
LayerChar(c) == IsAlnum(c) \/ c = " " \/ c = "_" \/ c = "-"

\* s with the other characters removed: its k-th character is the k-th kept one
Cleaned(s) ==
    LET keep == {i \in 1..Len(s) : LayerChar(s[i])}
        kth(k) == CHOOSE i \in keep : Cardinality({j \in keep : j < i}) = k - 1
    IN  [k \in 1..Cardinality(keep) |-> s[kth(k)]]

\* the placemark's name: the text of its name element, blanks around it trimmed
HasName(pm) == pm.kids # <<>> /\ pm.kids[1].tag = "name" /\ pm.kids[1].text # <<>>

NameOf(pm) == Strip(pm.kids[1].text)

\* C8: the layer name produced by extract_style_info is the first 31
\* characters of the placemark name after removing every character that is not
\* alphanumeric, space, underscore or hyphen; it has length at most 31 and is
\* never empty: with no name, or an empty filtered name, it is 'Layer_0'.
C8_LayerName ==
    pc = "returned" =>
        /\ Len(ret.layer) <= 31
        /\ ret.layer # <<>>
        /\ IF HasName(arg) /\ Cleaned(NameOf(arg)) # <<>>
           THEN LET clean == Cleaned(NameOf(arg))
                IN  /\ Len(ret.layer) = (IF Len(clean) < 31 THEN Len(clean) ELSE 31)
                    /\ \A i \in 1..Len(ret.layer) : ret.layer[i] = clean[i]
           ELSE ret.layer = Layer_0

\* a 50-character alphanumeric name gives its first 31 characters
C8_Witness ==
    /\ pc = "returned"
    /\ HasName(arg)
    /\ NameOf(arg) = Cycle(<<"a">>, 50)
    /\ ret.layer = Cycle(<<"a">>, 31)

(***************************************************************************)
(* process_point, process_linestring, process_polygon: each gives the      *)
(* features it appends to self.geometries and the value it returns.        *)
(***************************************************************************)
Feature(type, coordinates, style) ==
    [type |-> type, coordinates |-> coordinates, style |-> style, count |-> Len(coordinates)]

Nothing == [feats |-> <<>>, ok |-> FALSE]

\* the parsed coordinates of the first coordinates element below elem
CoordsBelow(elem) ==
    LET coords_elem == Find(elem, "coordinates")
    IN  IF coords_elem # None /\ coords_elem.text # <<>>
        THEN parse_coordinates(coords_elem.text)
        ELSE <<>>

process_point(geometry_elem, style_info) ==
    LET coordinates == CoordsBelow(geometry_elem)
    IN  IF coordinates # <<>>
        THEN [feats |-> [i \in 1..Len(coordinates) |->
                            Feature("POINT", <<coordinates[i]>>, style_info)],
              ok |-> TRUE]
        ELSE Nothing

\* a line is accepted from one coordinate on
process_linestring_lax(geometry_elem, style_info) ==
    LET coordinates == CoordsBelow(geometry_elem)
    IN  IF Len(coordinates) >= 1
        THEN [feats |-> <<Feature("LINESTRING", coordinates, style_info)>>, ok |-> TRUE]
        ELSE Nothing

process_linestring(geometry_elem, style_info) ==
    LET coordinates == CoordsBelow(geometry_elem)
    IN  IF Len(coordinates) >= 2
        THEN [feats |-> <<Feature("LINESTRING", coordinates, style_info)>>, ok |-> TRUE]
        ELSE Nothing

\* lines 285-286 and 305-306: append the first coordinate when the ring is open
CloseRing(coordinates) ==
    IF coordinates[1] # coordinates[Len(coordinates)]
    THEN Append(coordinates, coordinates[1])
    ELSE coordinates

\* lines 298-313: the features of the inner boundaries, in document order
RECURSIVE process_holes(_, _)
process_holes(inner_boundaries, style_info) ==
    IF inner_boundaries = <<>> THEN <<>>
    ELSE LET inner_ring == Find(Head(inner_boundaries), "LinearRing")
             inner_coords == IF inner_ring # None THEN CoordsBelow(inner_ring) ELSE <<>>
             hole == IF Len(inner_coords) >= 3
                     THEN <<Feature("POLYGON_HOLE", CloseRing(inner_coords), style_info)>>
                     ELSE <<>>
         IN  hole \o process_holes(Tail(inner_boundaries), style_info)

\* only the first inner boundary is read
process_polygon_one_hole(geometry_elem, style_info) ==
    LET outer_boundary == Find(geometry_elem, "outerBoundaryIs")
        linear_ring == Find(outer_boundary, "LinearRing")
        coordinates == IF outer_boundary # None /\ linear_ring # None
                       THEN CoordsBelow(linear_ring)
                       ELSE <<>>
        inner == FindAll(geometry_elem, "innerBoundaryIs")
    IN  IF Len(coordinates) >= 3
        THEN [feats |-> <<Feature("POLYGON", CloseRing(coordinates), style_info)>>
                            \o process_holes(Take(inner, 1), style_info),
              ok |-> TRUE]
        ELSE Nothing

process_polygon(geometry_elem, style_info) ==
    LET outer_boundary == Find(geometry_elem, "outerBoundaryIs")
        linear_ring == Find(outer_boundary, "LinearRing")
        coordinates == IF outer_boundary # None /\ linear_ring # None
                       THEN CoordsBelow(linear_ring)
                       ELSE <<>>
    IN  IF Len(coordinates) >= 3
        THEN [feats |-> <<Feature("POLYGON", CloseRing(coordinates), style_info)>>
                            \o process_holes(FindAll(geometry_elem, "innerBoundaryIs"),
                                             style_info),
              ok |-> TRUE]
        ELSE Nothing

(***************************************************************************)
(* process_placemark                                                       *)
(***************************************************************************)
\* lines 345-355: the children of a MultiGeometry, by local tag name
RECURSIVE process_children(_, _)
process_children(kids, style_info) ==
    IF kids = <<>> THEN <<>>
    ELSE LET geom_elem == Head(kids)
             r == IF geom_elem.tag = "Point" THEN process_point(geom_elem, style_info)
                  ELSE IF geom_elem.tag = "LineString"
                       THEN process_linestring(geom_elem, style_info)
                  ELSE IF geom_elem.tag = "Polygon"
                       THEN process_polygon(geom_elem, style_info)
                  ELSE Nothing
         IN  r.feats \o process_children(Tail(kids), style_info)

\* lines 340-356: the MultiGeometry branch, taken when nothing was processed
try_multigeometry(placemark, style_info) ==
    LET multi_elem == Find(placemark, "MultiGeometry")
    IN  IF multi_elem # None
        THEN [feats |-> process_children(multi_elem.kids, style_info),
              processed |-> TRUE, multi |-> 1]
        ELSE [feats |-> <<>>, processed |-> FALSE, multi |-> 0]

Simple(r) == [feats |-> r.feats, processed |-> TRUE, multi |-> 0]

\* lines 334-337
try_polygon(placemark, style_info) ==
    LET polygon_elem == Find(placemark, "Polygon")
    IN  IF polygon_elem # None /\ process_polygon(polygon_elem, style_info).ok
        THEN Simple(process_polygon(polygon_elem, style_info))
        ELSE try_multigeometry(placemark, style_info)

\* lines 329-332
try_linestring(placemark, style_info) ==
    LET line_elem == Find(placemark, "LineString")
    IN  IF line_elem # None /\ process_linestring(line_elem, style_info).ok
        THEN Simple(process_linestring(line_elem, style_info))
        ELSE try_polygon(placemark, style_info)

\* lines 325-327
try_point(placemark, style_info) ==
    LET point_elem == Find(placemark, "Point")
    IN  IF point_elem # None /\ process_point(point_elem, style_info).ok
        THEN Simple(process_point(point_elem, style_info))
        ELSE try_linestring(placemark, style_info)

\* feats: the features appended; processed: the return value; multi: 1 when
\* the MultiGeometry branch ran
process_placemark(placemark, style_info) == try_point(placemark, style_info)

\* the number of features of a type: what the process_* functions and
\* extract_geometries_directly add to stats['points'], ['lines'], ['polygons']
CountType(feats, type) == Len(SelectSeq(feats, LAMBDA f : f.type = type))

AddStats(st, feats) ==
    [st EXCEPT !.points = @ + CountType(feats, "POINT"),
               !.lines = @ + CountType(feats, "LINESTRING"),
               !.polygons = @ + CountType(feats, "POLYGON")]

(***************************************************************************)
(* extract_geometries_directly                                             *)
(***************************************************************************)
Extracted(name) ==
    [color |-> 7, width |-> 0, filled |-> TRUE,
     layer |-> <<"E", "x", "t", "r", "a", "c", "t", "e", "d">>, name |-> name]

\* the feature of one coordinates element, by the number of its coordinates
direct_feature(elem) ==
    LET coordinates == IF elem.text # <<>> THEN parse_coordinates(elem.text) ELSE <<>>
    IN  IF Len(coordinates) = 0 THEN <<>>
        ELSE IF Len(coordinates) = 1
             THEN <<Feature("POINT", coordinates, Extracted(<<"P", "o", "i", "n", "t">>))>>
        ELSE IF Len(coordinates) = 2
             THEN <<Feature("LINESTRING", coordinates, Extracted(<<"L", "i", "n", "e">>))>>
        ELSE <<Feature("POLYGON", coordinates,
                       Extracted(<<"P", "o", "l", "y", "g", "o", "n">>))>>

RECURSIVE direct_features(_)
direct_features(coord_elems) ==
    IF coord_elems = <<>> THEN <<>>
    ELSE direct_feature(Head(coord_elems)) \o direct_features(Tail(coord_elems))

\* the features appended by extract_geometries_directly
extract_geometries_directly(doc) == direct_features(FindAll(doc, "coordinates"))

\* the state after extract_geometries_directly(root), which parse_kml returns;
\* st is self.stats when it is called
ExtractDirectly(st) ==
    LET feats == extract_geometries_directly(root)
    IN  /\ geometries' = geometries \o feats
        /\ stats' = [AddStats(st, feats) EXCEPT
                        !.layers = IF feats # <<>>
                                   THEN @ \cup {Extracted(<<>>).layer}
                                   ELSE @]
        /\ result' = (Len(geometries') > 0)

(***************************************************************************)
(* parse_kml, from the parsed root on                                      *)
(***************************************************************************)
EARTH20 == "http://earth.google.com/kml/2.0"

EARTH21 == "http://earth.google.com/kml/2.1"

KML21 == "http://www.opengis.net/kml/2.1"

namespaces_to_try == <<KML22, EARTH20, EARTH21, KML21>>

\* lines 390-402: the first namespace of the list that has placemarks, then
\* no namespace, then any namespace
find_placemarks(doc) ==
    LET hits == SelectSeq(namespaces_to_try,
                          LAMBDA ns : FindAllNs(doc, ns, "Placemark") # <<>>)
    IN  IF hits # <<>> THEN FindAllNs(doc, Head(hits), "Placemark")
        ELSE IF FindAllNs(doc, "", "Placemark") # <<>>
             THEN FindAllNs(doc, "", "Placemark")
        ELSE FindAll(doc, "Placemark")

\* lines 379-409
FindPlacemarks ==
    /\ pc = "parse"
    /\ placemarks' = find_placemarks(root)
    /\ IF placemarks' = <<>>
       THEN /\ ExtractDirectly([stats EXCEPT !.total_placemarks = 0])
            /\ pc' = "done"
            /\ idx' = idx
       ELSE /\ stats' = [stats EXCEPT !.total_placemarks = Len(placemarks')]
            /\ pc' = "loop"
            /\ idx' = 1
            /\ UNCHANGED <<geometries, result>>
    /\ UNCHANGED <<arg, ret, root, processed_count, marks, uiVars>>

\* lines 413-419: one iteration of the loop over the placemarks
ProcessPlacemark ==
    /\ pc = "loop"
    /\ idx <= Len(placemarks)
    /\ \E style_info \in {extract_style_info(placemarks[idx], root)} :
       \E r \in {process_placemark(placemarks[idx], style_info)} :
           /\ geometries' = geometries \o r.feats
           /\ stats' = [AddStats(stats, r.feats) EXCEPT
                           !.layers = @ \cup {style_info.layer},
                           !.multigeometries = @ + r.multi]
           /\ processed_count' = processed_count + (IF r.processed THEN 1 ELSE 0)
           /\ marks' = Append(marks, Len(geometries'))
    /\ idx' = idx + 1
    /\ UNCHANGED <<pc, arg, ret, root, placemarks, result, uiVars>>

\* lines 421-425
FinishParse ==
    /\ pc = "loop"
    /\ idx > Len(placemarks)
    /\ IF processed_count = 0
       THEN ExtractDirectly(stats)
       ELSE /\ result' = (Len(geometries) > 0)
            /\ UNCHANGED <<geometries, stats>>
    /\ pc' = "done"
    /\ UNCHANGED <<arg, ret, root, placemarks, idx, processed_count, marks, uiVars>>

(***************************************************************************)
(* The documents parsed: one placemark with every geometry of GeomMenu;    *)
(* up to MaxPlacemarks placemarks in several namespaces, directly in the   *)
(* Document or in a Folder; geometries outside any placemark; placemarks   *)
(* with a style reference, resolved or not.                                *)
(***************************************************************************)
GX22 == "http://www.google.com/kml/ext/2.2"

CoordTok(k) == <<Digits[k + 1], ",", Digits[k + 1]>>

\* "1,1 2,2 ... n,n"
Txt(n) == JoinTokens([k \in 1..n |-> CoordTok(k)])

\* "1,1 2,2 ... n,n 1,1"
ClosedTxt(n) == JoinTokens([k \in 1..(n + 1) |-> IF k = n + 1 THEN CoordTok(1) ELSE CoordTok(k)])

PointEl(ns, t) == Node("Point", ns, <<Leaf("coordinates", ns, t)>>)

LineEl(ns, t) == Node("LineString", ns, <<Leaf("coordinates", ns, t)>>)

RingEl(ns, t) == Node("LinearRing", ns, <<Leaf("coordinates", ns, t)>>)

PolygonEl(ns, outer, inners) ==
    Node("Polygon", ns,
         <<Node("outerBoundaryIs", ns, <<RingEl(ns, outer)>>)>>
             \o [i \in 1..Len(inners) |-> Node("innerBoundaryIs", ns, <<RingEl(ns, inners[i])>>)])

MultiEl(ns, kids) == Node("MultiGeometry", ns, kids)

Polygons(ns) ==
    {PolygonEl(ns, o, i) :
        o \in {Txt(n) : n \in 2..MaxCoords} \cup {ClosedTxt(MaxCoords)},
        i \in SeqsUpTo({Txt(2), Txt(3)}, MaxInner)}

SimpleGeoms(ns) ==
    {PointEl(ns, Txt(n)) : n \in 0..2}
        \cup {LineEl(ns, Txt(n)) : n \in 1..MaxCoords}
        \cup {RingEl(ns, Txt(MaxCoords)), RingEl(ns, ClosedTxt(MaxCoords))}
        \cup Polygons(ns)

ChildMenu(ns) ==
    {PointEl(ns, Txt(1)), PointEl(ns, Txt(0)), LineEl(ns, Txt(2)), LineEl(ns, Txt(1)),
     PolygonEl(ns, Txt(3), <<>>), PolygonEl(ns, Txt(3), <<Txt(3)>>),
     MultiEl(ns, <<PointEl(ns, Txt(1))>>)}

MultiGeoms(ns) == {MultiEl(ns, k) : k \in SeqsUpTo(ChildMenu(ns), MaxKids) \ {<<>>}}

\* a placemark: its name, its styleUrl (<<>> for none), its geometry elements
PlacemarkEl(ns, name, url, geoms) ==
    Node("Placemark", ns,
         <<Leaf("name", ns, name)>>
             \o (IF url = <<>> THEN <<>> ELSE <<Leaf("styleUrl", ns, url)>>)
             \o geoms)

DocsGeom ==
    {KmlDoc(KML22, <<PlacemarkEl(KML22, <<"a">>, <<>>, <<g>>)>>) :
        g \in SimpleGeoms(KML22) \cup MultiGeoms(KML22)}

NsItems ==
    LET pms == {PlacemarkEl(ns, <<"p">>, <<>>, <<IF ring THEN RingEl(ns, Txt(3))
                                                 ELSE PointEl(ns, Txt(1))>>) :
                    ns \in {KML22, EARTH20, GX22, ""}, ring \in BOOLEAN}
    IN  pms \cup {Node("Folder", pm.ns, <<pm>>) : pm \in pms}

DocsNs == {KmlDoc(KML22, items) : items \in SeqsUpTo(NsItems, MaxPlacemarks)}

DocsBare == {KmlDoc(KML22, <<g>>) : g \in SimpleGeoms(KML22)}

StyleEl(id, kids) == El("Style", KML22, id, <<>>, kids)

LineStyleEl(color, width) ==
    Node("LineStyle", KML22, <<Leaf("color", KML22, color), Leaf("width", KML22, width)>>)

PolyStyleEl(fill) == Node("PolyStyle", KML22, <<Leaf("fill", KML22, fill)>>)

StyleDefs ==
    { <<>>,
      <<StyleEl(<<"s", "1">>,
                <<LineStyleEl(<<"#", "f", "f", "0", "0", "0", "0", "f", "f">>, <<"2">>),
                  PolyStyleEl(<<"0">>)>>)>>,
      <<StyleEl(<<"s", "1">>,
                <<LineStyleEl(<<"f", "f", "0", "0", "f", "f", "0", "0">>, <<"w">>)>>)>>,
      <<StyleEl(<<"s", "1">>,
                <<El("LineStyle", KML22, <<"s", "2">>, <<>>,
                     <<Leaf("color", KML22, <<"#", "f", "f", "0", "0", "f", "f", "0", "0">>)>>)>>)>> }

DocsStyle ==
    {KmlDoc(KML22, IF first THEN st \o <<pm>> ELSE <<pm>> \o st) :
        first \in BOOLEAN,
        st \in StyleDefs,
        pm \in {PlacemarkEl(KML22, <<"a">>, url, <<g>>) :
                    url \in {<<>>, <<"#", "s", "1">>, <<"#", "s", "2">>},
                    g \in {PointEl(KML22, Txt(1)), PointEl(KML22, Txt(0)),
                           PolygonEl(KML22, Txt(3), <<>>)}}}

Documents == DocsGeom \cup DocsNs \cup DocsBare \cup DocsStyle

Init ==
    /\ pc = "parse"
    /\ arg = <<>>
    /\ ret = <<>>
    /\ root \in Documents
    /\ placemarks = <<>>
    /\ idx = 0
    /\ geometries = <<>>
    /\ stats = NoStats
    /\ processed_count = 0
    /\ result = FALSE
    /\ marks = <<>>
    /\ NoSession

Next == FindPlacemarks \/ ProcessPlacemark \/ FinishParse

Spec == Init /\ [][Next]_vars

(***************************************************************************)
(* Properties of parse_kml                                                 *)
(***************************************************************************)
\* the features appended while the i-th placemark was processed
FeatsOf(i) == SubSeq(geometries, (IF i = 1 THEN 0 ELSE marks[i - 1]) + 1, marks[i])

\* the MultiGeometry elements that are the geometry of a placemark
MultiOf(pm) == SelectSeq(pm.kids, LAMBDA k : k.tag = "MultiGeometry")

\* the per-kind handling of every child, nested MultiGeometry included, in
\* child order
RECURSIVE Flattened(_, _)
Flattened(kids, style_info) ==
    IF kids = <<>> THEN <<>>
    ELSE LET k == Head(kids)
             here == IF k.tag = "Point" THEN process_point(k, style_info).feats
                     ELSE IF k.tag = "LineString" THEN process_linestring(k, style_info).feats
                     ELSE IF k.tag = "Polygon" THEN process_polygon(k, style_info).feats
                     ELSE IF k.tag = "MultiGeometry" THEN Flattened(k.kids, style_info)
                     ELSE <<>>
         IN  here \o Flattened(Tail(kids), style_info)

\* C1: for every placemark whose geometry is a MultiGeometry, the features
\* appended are those of the per-kind handling of each child (nested
\* MultiGeometry recursively), in child order: no valid child is left without
\* a feature.
C1_MultiGeometryFlattened ==
    \A i \in 1..Len(marks) :
        MultiOf(placemarks[i]) # <<>> =>
            FeatsOf(i) = Flattened(Head(MultiOf(placemarks[i])).kids,
                                   extract_style_info(placemarks[i], root))

\* C2: after parse_kml returns, every POLYGON feature has its first coordinate
\* equal to its last, whichever extraction path produced it.
C2_PolygonsClosed ==
    pc = "done" =>
        \A k \in 1..Len(geometries) :
            geometries[k].type = "POLYGON" =>
                geometries[k].coordinates[1]
                    = geometries[k].coordinates[Len(geometries[k].coordinates)]

\* the elements of the document with local name Placemark
PlacemarkElements == SelectSeq(Iter(root), LAMBDA e : e.tag = "Placemark")

\* C5: parse_kml discovers every Placemark element, at any depth and in any
\* namespace: the number of placemarks processed equals the number of elements
\* with local name Placemark.
C5_AllPlacemarksFound ==
    pc = "done" =>
        /\ stats.total_placemarks = Len(PlacemarkElements)
        /\ Len(marks) = Len(PlacemarkElements)

\* the style id a placemark refers to, <<>> when it refers to none
StyleIdOf(pm) ==
    LET urls == SelectSeq(pm.kids, LAMBDA k : k.tag = "styleUrl")
    IN  IF urls = <<>> THEN <<>> ELSE SelectSeq(Head(urls).text, LAMBDA c : c # "#")

\* the placemark refers to a style id that no style definition carries
Dangling(pm) ==
    /\ StyleIdOf(pm) # <<>>
    /\ \A k \in 1..Len(Iter(root)) :
          Iter(root)[k].tag \in {"Style", "StyleMap"} => Iter(root)[k].id # StyleIdOf(pm)

\* the placemark's geometry is a Point, LineString or Polygon with enough
\* coordinates
HasValidGeometry(pm) ==
    \E k \in 1..Len(pm.kids) :
        \/ pm.kids[k].tag = "Point" /\ Len(CoordsBelow(pm.kids[k])) >= 1
        \/ pm.kids[k].tag = "LineString" /\ Len(CoordsBelow(pm.kids[k])) >= 2
        \/ pm.kids[k].tag = "Polygon" /\ Len(CoordsBelow(pm.kids[k])) >= 3

\* C6: a placemark whose styleUrl names a style id with no definition in the
\* document gets color 7, width 0.0 and filled True, and its geometry is still
\* extracted.
C6_DanglingStyleDefaults ==
    \A i \in 1..Len(marks) :
        Dangling(placemarks[i]) =>
            /\ \A k \in 1..Len(FeatsOf(i)) :
                  /\ FeatsOf(i)[k].style.color = 7
                  /\ FeatsOf(i)[k].style.width = 0
                  /\ FeatsOf(i)[k].style.filled = TRUE
            /\ HasValidGeometry(placemarks[i]) => FeatsOf(i) # <<>>

\* a dangling reference in a document that defines another style
C6_Witness ==
    /\ pc = "done"
    /\ FindAll(root, "Style") # <<>>
    /\ \E i \in 1..Len(marks) :
          /\ Dangling(placemarks[i])
          /\ FeatsOf(i) # <<>>
          /\ FeatsOf(i)[1].type = "POLYGON"

\* the parsed coordinates of every coordinates element of the document
ParsedLens ==
    LET elems == FindAll(root, "coordinates")
    IN  [k \in 1..Len(elems) |-> Len(parse_coordinates(elems[k].text))]

RECURSIVE SumSeq(_)
SumSeq(q) == IF q = <<>> THEN 0 ELSE Head(q) + SumSeq(Tail(q))

AtLeast(n) == Len(SelectSeq(ParsedLens, LAMBDA l : l >= n))

MinCoords(type) == IF type = "POINT" THEN 1 ELSE IF type = "LINESTRING" THEN 2 ELSE 3

\* C9: every feature has at least 1 coordinate if a POINT, 2 if a LINESTRING,
\* 3 if a POLYGON or POLYGON_HOLE; a geometry whose parsed coordinates fall
\* short of the bound of a kind produces no feature of that kind.
C9_CoordinateBounds ==
    /\ \A k \in 1..Len(geometries) :
          /\ geometries[k].type \in {"POINT", "LINESTRING", "POLYGON", "POLYGON_HOLE"}
          /\ Len(geometries[k].coordinates) >= MinCoords(geometries[k].type)
    /\ CountType(geometries, "POINT") <= SumSeq(ParsedLens)
    /\ CountType(geometries, "LINESTRING") <= AtLeast(2)
    /\ CountType(geometries, "POLYGON") + CountType(geometries, "POLYGON_HOLE") <= AtLeast(3)

\* a LineString of one coordinate: no LINESTRING feature comes of it
C9_Witness ==
    /\ pc = "done"
    /\ \E k \in 1..Len(Desc(root)) :
          Desc(root)[k].tag = "LineString" /\ Len(CoordsBelow(Desc(root)[k])) = 1
    /\ CountType(geometries, "LINESTRING") = 0
    /\ geometries # <<>>

(***************************************************************************)
(* process_polygon alone: a Polygon element with any outer ring and up to  *)
(* MaxInner inner boundaries.                                              *)
(***************************************************************************)
RingTexts == {Txt(n) : n \in 1..MaxCoords} \cup {ClosedTxt(MaxCoords)}

PolygonInputs ==
    {PolygonEl(KML22, o, i) :
        o \in RingTexts \cup {<<>>}, i \in SeqsUpTo(RingTexts, MaxInner)}

PolygonStyle ==
    [color |-> 1, width |-> 2, filled |-> FALSE, layer |-> <<"a">>, name |-> <<"a">>]

InitPolygon ==
    /\ pc = "call"
    /\ arg \in PolygonInputs
    /\ ret = Nothing
    /\ NoDocument
    /\ NoSession

CallProcessPolygon ==
    /\ pc = "call"
    /\ ret' = process_polygon(arg, PolygonStyle)
    /\ pc' = "returned"
    /\ UNCHANGED <<arg, docVars, uiVars>>

NextPolygon == CallProcessPolygon

SpecPolygon == InitPolygon /\ [][NextPolygon]_vars

\* the parsed coordinates of the ring of a boundary element
RingOf(boundary) == parse_coordinates(boundary.kids[1].kids[1].text)

OuterOf(polygon) == RingOf(polygon.kids[1])

\* the inner boundaries of a polygon, in document order
InnerOf(polygon) == SelectSeq(polygon.kids, LAMBDA k : k.tag = "innerBoundaryIs")

\* the inner boundaries whose ring has at least 3 coordinates
ValidInnerOf(polygon) == SelectSeq(InnerOf(polygon), LAMBDA k : Len(RingOf(k)) >= 3)

\* coordinates is ring, closed: ring itself when it ends where it starts, ring
\* and its first coordinate otherwise
ClosedFrom(coordinates, ring) ==
    /\ coordinates[1] = coordinates[Len(coordinates)]
    /\ SubSeq(coordinates, 1, Len(ring)) = ring
    /\ Len(coordinates) = Len(ring) + (IF ring[1] = ring[Len(ring)] THEN 0 ELSE 1)

\* C10 as stated: every inner boundary ring of a Polygon processed by
\* process_polygon becomes a POLYGON_HOLE feature; none is dropped.
C10_EveryInnerRing ==
    pc = "returned" =>
        CountType(ret.feats, "POLYGON_HOLE") = Len(InnerOf(arg))

\* C10, amended: when the outer ring has at least 3 coordinates, the features
\* are the POLYGON of the outer ring, closed, followed in document order by one
\* POLYGON_HOLE, closed and with the polygon's style, for each inner ring of at
\* least 3 coordinates; shorter inner rings, and every ring of a polygon whose
\* outer ring is shorter, give no feature.
C10_ValidInnerRings ==
    pc = "returned" =>
        IF Len(OuterOf(arg)) >= 3
        THEN /\ Len(ret.feats) = 1 + Len(ValidInnerOf(arg))
             /\ ret.feats[1].type = "POLYGON"
             /\ ClosedFrom(ret.feats[1].coordinates, OuterOf(arg))
             /\ \A k \in 1..Len(ValidInnerOf(arg)) :
                   /\ ret.feats[1 + k].type = "POLYGON_HOLE"
                   /\ ret.feats[1 + k].style = PolygonStyle
                   /\ ClosedFrom(ret.feats[1 + k].coordinates, RingOf(ValidInnerOf(arg)[k]))
        ELSE ret.feats = <<>>

\* two inner rings, an open one and a closed one, both extracted
C10_Witness ==
    /\ pc = "returned"
    /\ Len(InnerOf(arg)) = 2
    /\ RingOf(InnerOf(arg)[1]) # RingOf(InnerOf(arg)[2])
    /\ CountType(ret.feats, "POLYGON_HOLE") = 2

(***************************************************************************)
(* create_dxf.  The drawing returned is [layers, entities]; an entity is   *)
(* [dxftype, points, dxfattribs, geom], geom the index in self.geometries  *)
(* of the feature it was added for.  Which calls into the drawing library  *)
(* raise is an input: raises is a set of <<i, call>>, i the index of the   *)
(* feature the call is made for, 0 for the calls on the whole document.    *)
(* options['preserve_layers'] is never read and is left out.               *)
(***************************************************************************)
Options == [simplify_lines : BOOLEAN, create_hatch : BOOLEAN]

Layer0 == <<"0">>

\* ezdxf.new('R2010'): the layer table of a new document
BuiltinLayers == {Layer0, <<"D", "e", "f", "p", "o", "i", "n", "t", "s">>}

\* lines 504-510: the names doc.layers.new is called with
safe_layer_names(layers) ==
    {Strip(Take(layer_name, LayerNameMax)) :
        layer_name \in {l \in layers : l # <<>> /\ Strip(l) # <<>>}} \ {<<>>}

\* lines 504-512: the layer table after the loop; doc.layers.new raises for
\* a name the table already has and the exception is caught
create_layers(layers) == BuiltinLayers \cup safe_layer_names(layers)

\* the warnings of the loop: the calls of doc.layers.new that raised
layer_warnings(layers) ==
    Cardinality({l \in layers : l # <<>> /\ Strip(l) # <<>>
                                    /\ Strip(Take(l, LayerNameMax)) # <<>>})
        - Cardinality(safe_layer_names(layers) \ BuiltinLayers)

Entity(dxftype, points, dxfattribs, i) ==
    [dxftype |-> dxftype, points |-> points, dxfattribs |-> dxfattribs, geom |-> i]

Raises(raises, i, call) == <<i, call>> \in raises

\* line 520
layer_name_of(style) ==
    IF style.layer # <<>> THEN Strip(Take(style.layer, LayerNameMax)) ELSE Layer0

\* lines 543 and 553
lineweight_of(style) == IF style.width > 0 THEN style.width * 100 ELSE 0

\* the attributes of the entities of a feature
PlainAttribs(geom) == [layer |-> layer_name_of(geom.style), color |-> geom.style.color]

LineAttribs(geom) ==
    [layer |-> layer_name_of(geom.style), color |-> geom.style.color,
     lineweight |-> lineweight_of(geom.style)]

\* lines 524-532
emit_point(geom, i, options, raises) ==
    IF Raises(raises, i, "add_point") THEN <<>>
    ELSE [k \in 1..Len(geom.coordinates) |->
             Entity("POINT", <<geom.coordinates[k]>>, PlainAttribs(geom), i)]

\* a polyline whatever the option and the number of coordinates
emit_linestring_polyline(geom, i, options, raises) ==
    IF Raises(raises, i, "add_polyline3d") THEN <<>>
    ELSE <<Entity("POLYLINE", geom.coordinates, LineAttribs(geom), i)>>

\* lines 534-555
emit_linestring(geom, i, options, raises) ==
    IF options.simplify_lines /\ Len(geom.coordinates) = 2
    THEN IF Raises(raises, i, "add_line") THEN <<>>
         ELSE <<Entity("LINE", geom.coordinates, LineAttribs(geom), i)>>
    ELSE IF Raises(raises, i, "add_polyline3d") THEN <<>>
         ELSE <<Entity("POLYLINE", geom.coordinates, LineAttribs(geom), i)>>

\* line 566
coords_2d(coordinates) ==
    [k \in 1..Len(coordinates) |-> <<coordinates[k][1], coordinates[k][2]>>]

\* lines 573-579 and 582-588
polygon_polyline(geom, i, raises) ==
    IF Raises(raises, i, "add_polyline3d") THEN <<>>
    ELSE <<Entity("POLYLINE", geom.coordinates, PlainAttribs(geom), i)>>

\* lines 557-588; the points of a HATCH are its boundary paths: add_hatch adds
\* the entity, add_polyline_path its boundary
emit_polygon(geom, i, options, raises) ==
    IF options.create_hatch /\ geom.type = "POLYGON" /\ geom.style.filled
    THEN IF Raises(raises, i, "add_hatch")
         THEN polygon_polyline(geom, i, raises)
         ELSE IF Raises(raises, i, "add_polyline_path")
              THEN <<Entity("HATCH", <<>>, PlainAttribs(geom), i)>>
                       \o polygon_polyline(geom, i, raises)
              ELSE <<Entity("HATCH", <<coords_2d(geom.coordinates)>>, PlainAttribs(geom), i)>>
    ELSE polygon_polyline(geom, i, raises)

\* lines 516-592: the entities added for self.geometries[i]
emit_geometry(geom, i, options, raises) ==
    IF geom.type = "POINT" /\ geom.coordinates # <<>>
    THEN emit_point(geom, i, options, raises)
    ELSE IF geom.type = "LINESTRING" /\ Len(geom.coordinates) >= 2
         THEN emit_linestring(geom, i, options, raises)
    ELSE IF geom.type \in {"POLYGON", "POLYGON_HOLE"} /\ Len(geom.coordinates) >= 3
         THEN emit_polygon(geom, i, options, raises)
    ELSE <<>>

\* lines 515-592: the loop over self.geometries from index i on
RECURSIVE emit_geometries(_, _, _, _)
emit_geometries(geoms, i, options, raises) ==
    IF i > Len(geoms) THEN <<>>
    ELSE emit_geometry(geoms[i], i, options, raises)
             \o emit_geometries(geoms, i + 1, options, raises)

\* the first feature is lost when any call raises
create_dxf_drop_first(geoms, layers, options, raises) ==
    IF Raises(raises, 0, "new") \/ Raises(raises, 0, "saveas")
    THEN <<>>
    ELSE <<[layers |-> create_layers(layers),
            entities |-> emit_geometries(geoms, IF raises = {} THEN 1 ELSE 2, options, raises)]>>

\* create_dxf: <<drawing>>, or <<>> for None when a call on the document raises
create_dxf(geoms, layers, options, raises) ==
    IF Raises(raises, 0, "new") \/ Raises(raises, 0, "saveas")
    THEN <<>>
    ELSE <<[layers |-> create_layers(layers),
            entities |-> emit_geometries(geoms, 1, options, raises)]>>

\* the calls create_dxf makes for one feature
CallsOf(geom, options) ==
    IF geom.type = "POINT" THEN {"add_point"}
    ELSE IF geom.type = "LINESTRING"
         THEN IF options.simplify_lines /\ Len(geom.coordinates) = 2
              THEN {"add_line"}
              ELSE {"add_polyline3d"}
    ELSE IF options.create_hatch /\ geom.type = "POLYGON" /\ geom.style.filled
         THEN {"add_hatch", "add_polyline_path", "add_polyline3d"}
    ELSE {"add_polyline3d"}

\* the inputs: no call raises, saving raises, or calls of one feature raise
RaiseSets(geoms, options) ==
    {{}, {<<0, "saveas">>}}
        \cup UNION {{{<<i, c>> : c \in cs} : cs \in (SUBSET CallsOf(geoms[i], options)) \ {{}}} :
                       i \in 1..Len(geoms)}

(***************************************************************************)
(* One press of Convert in main: parse_kml from the text on, then the      *)
(* branch of main that parse_kml's return value selects.  The text is      *)
(* [markup, tree]: tree is what ET.fromstring gives when the markup is     *)
(* well-formed, or becomes so once every '&' is replaced by '&amp;'.       *)
(***************************************************************************)
\* the second ParseError is swallowed and parse_kml returns True
FromString_swallow ==
    /\ pc = "fromstring"
    /\ IF arg.markup \in {"well-formed", "bare-ampersand"}
       THEN /\ root' = arg.tree
            /\ pc' = "parse"
            /\ result' = result
       ELSE /\ root' = root
            /\ pc' = "done"
            /\ result' = TRUE
    /\ UNCHANGED <<arg, ret, placemarks, idx, geometries, stats, processed_count, marks, uiVars>>

\* lines 362-378 and 427-431
FromString ==
    /\ pc = "fromstring"
    /\ IF arg.markup \in {"well-formed", "bare-ampersand"}
       THEN /\ root' = arg.tree
            /\ pc' = "parse"
            /\ result' = result
       ELSE /\ root' = root
            /\ pc' = "done"
            /\ result' = FALSE
    /\ UNCHANGED <<arg, ret, placemarks, idx, geometries, stats, processed_count, marks, uiVars>>

\* get_statistics
RECURSIVE SumCounts(_)
SumCounts(geoms) == IF geoms = <<>> THEN 0 ELSE Head(geoms).count + SumCounts(Tail(geoms))

get_statistics(converter) ==
    [total_geometries |-> Len(converter.geometries),
     placemarks_found |-> converter.stats.total_placemarks,
     points |-> converter.stats.points,
     lines |-> converter.stats.lines,
     polygons |-> converter.stats.polygons,
     multigeometries |-> converter.stats.multigeometries,
     layers |-> Cardinality(converter.stats.layers),
     total_coordinates |-> SumCounts(converter.geometries)]

\* lines 654-657: the statistics in the sidebar
Sidebar(ss) ==
    IF ss.converter # <<>> /\ ss.conversion_done
    THEN <<get_statistics(ss.converter[1])>>
    ELSE <<>>

AsciiLower ==
    <<"a", "b", "c", "d", "e", "f", "g", "h", "i", "j", "k", "l", "m", "n", "o", "p", "q",
      "r", "s", "t", "u", "v", "w", "x", "y", "z">>

AsciiUpper ==
    <<"A", "B", "C", "D", "E", "F", "G", "H", "I", "J", "K", "L", "M", "N", "O", "P", "Q",
      "R", "S", "T", "U", "V", "W", "X", "Y", "Z">>

\* str.lower()
Lower(s) ==
    [k \in 1..Len(s) |->
        IF \E j \in 1..26 : AsciiUpper[j] = s[k]
        THEN AsciiLower[CHOOSE j \in 1..26 : AsciiUpper[j] = s[k]]
        ELSE s[k]]

\* str.endswith
EndsWith(s, suffix) ==
    Len(s) >= Len(suffix) /\ SubSeq(s, Len(s) - Len(suffix) + 1, Len(s)) = suffix

\* sub in s
Contains(s, sub) ==
    \E k \in 1..(Len(s) - Len(sub) + 1) : SubSeq(s, k, k + Len(sub) - 1) = sub

\* os.path.splitext(name)[0] of a name with no directory part
SplitextRoot(name) ==
    LET dots == {k \in 2..Len(name) : name[k] = "." /\ \E j \in 1..(k - 1) : name[j] # "."}
    IN  IF dots = {} THEN name
        ELSE SubSeq(name, 1, (CHOOSE k \in dots : \A j \in dots : j <= k) - 1)

\* lines 761-766
dxf_filename(original_name) ==
    LET base_name == SplitextRoot(original_name)
        cut == IF EndsWith(Lower(base_name), <<".", "k", "m", "z">>)
               THEN SubSeq(base_name, 1, Len(base_name) - 4)
               ELSE base_name
    IN  cut \o <<"_", "c", "o", "n", "v", "e", "r", "t", "e", "d", ".", "d", "x", "f">>

\* lines 755-778: the download button, <<>> when the section is not shown
DownloadSection(ss, file) ==
    IF ss.conversion_done /\ ss.dxf_bytes # <<>>
    THEN <<[file_name |-> dxf_filename(file.name), data |-> ss.dxf_bytes[1]]>>
    ELSE <<>>

\* lines 713-750 and 755-778: parse_kml returned True
CreateDxf ==
    /\ pc = "done"
    /\ result
    /\ \E options \in Options :
       \E raises \in RaiseSets(geometries, options) :
       \E dxf_bytes \in {create_dxf(geometries, stats.layers, options, raises)} :
       \E converter \in {[geometries |-> geometries, stats |-> stats]} :
           /\ arg' = [options |-> options, raises |-> raises]
           /\ ret' = dxf_bytes
           /\ session_state' =
                  IF dxf_bytes # <<>>
                  THEN [converter |-> <<converter>>, conversion_done |-> TRUE,
                        dxf_bytes |-> dxf_bytes]
                  ELSE [session_state EXCEPT !.converter = <<converter>>]
           /\ page' = [page EXCEPT
                          !.error = IF dxf_bytes # <<>> THEN "" ELSE "Failed to create DXF file",
                          !.download = DownloadSection(session_state', uploaded_file[1])]
           /\ last_conversion' =
                  <<[file |-> uploaded_file[1], dxf_bytes |-> dxf_bytes,
                     statistics |-> get_statistics(converter)]>>
    /\ pc' = "idle"
    /\ UNCHANGED <<docVars, uploaded_file>>

\* lines 751-752 and 755-778: parse_kml returned False
ParseFailed ==
    /\ pc = "done"
    /\ ~result
    /\ page' = [page EXCEPT !.error = "Failed to parse KML file",
                            !.download = DownloadSection(session_state, uploaded_file[1])]
    /\ last_conversion' =
           <<[file |-> uploaded_file[1], dxf_bytes |-> <<>>,
              statistics |-> get_statistics([geometries |-> geometries, stats |-> stats])]>>
    /\ pc' = "idle"
    /\ UNCHANGED <<arg, ret, docVars, uploaded_file, session_state>>

(***************************************************************************)
(* The texts converted: an ill-formed text; documents of up to             *)
(* MaxPlacemarks placemarks whose names give a plain layer, a blank layer, *)
(* the layer '0' and two layers that differ by a leading blank; documents  *)
(* with no placemark, with or without geometry.                            *)
(***************************************************************************)
Content(markup, tree) == [markup |-> markup, tree |-> tree]

ConvertStyle ==
    <<StyleEl(<<"s", "1">>,
              <<LineStyleEl(<<"f", "f", "0", "0", "0", "0", "f", "f">>, <<"2">>),
                PolyStyleEl(<<"0">>)>>)>>

ConvertItems ==
    {PlacemarkEl(KML22, <<"A">>, <<>>,
                 <<PointEl(KML22, <<"1", "0", ",", "2", "0", ",", "0">>)>>),
     PlacemarkEl(KML22, <<"!", " ", "!">>, <<>>, <<PointEl(KML22, Txt(1))>>),
     PlacemarkEl(KML22, <<"a">>, <<"#", "s", "1">>, <<LineEl(KML22, Txt(2))>>),
     PlacemarkEl(KML22, <<"!", " ", "a">>, <<>>, <<LineEl(KML22, Txt(3))>>),
     PlacemarkEl(KML22, <<"0">>, <<>>, <<PolygonEl(KML22, Txt(3), <<Txt(3)>>)>>),
     PlacemarkEl(KML22, <<"b">>, <<"#", "s", "1">>, <<PolygonEl(KML22, ClosedTxt(3), <<>>)>>),
     PlacemarkEl(KML22, <<"a">>, <<>>, <<>>)}

ConvertDocs ==
    {KmlDoc(KML22, ConvertStyle \o items) : items \in SeqsUpTo(ConvertItems, MaxPlacemarks)}
        \cup DocsBare

ConvertContents ==
    {Content("well-formed", d) : d \in ConvertDocs}
        \cup {Content("bare-ampersand", d) : d \in DocsBare}
        \cup {Content("ill-formed", None)}

UploadName == <<"A", ".", "k", "m", "l">>

InitConvert ==
    /\ pc = "fromstring"
    /\ arg \in ConvertContents
    /\ ret = <<>>
    /\ NoDocument
    /\ uploaded_file = <<[name |-> UploadName, content |-> arg]>>
    /\ session_state = NewSession
    /\ page = BlankPage
    /\ last_conversion = <<>>

NextConvert ==
    FromString \/ FindPlacemarks \/ ProcessPlacemark \/ FinishParse \/ CreateDxf \/ ParseFailed

SpecConvert == InitConvert /\ [][NextConvert]_vars

(***************************************************************************)
(* Properties of create_dxf                                                *)
(***************************************************************************)
\* the run ended and create_dxf returned a drawing
Emitted == pc = "idle" /\ result /\ ret # <<>>

Drawing == ret[1]

EntitiesOf(i) == SelectSeq(Drawing.entities, LAMBDA e : e.geom = i)

TypedOf(i, dxftype) == SelectSeq(EntitiesOf(i), LAMBDA e : e.dxftype = dxftype)

\* a call made for feature i raised
Failed(i) == \E call \in arg.raises : call[1] = i

\* C11: every entity of the drawing create_dxf returns is on a layer of the
\* drawing's layer table, which holds the layers created from stats['layers']
\* and the built-in layer '0'; a layer name that is already in the table does
\* not make create_dxf return no drawing.
C11_EntityLayersExist ==
    /\ Emitted =>
          \A k \in 1..Len(Drawing.entities) :
              Drawing.entities[k].dxfattribs.layer \in Drawing.layers
    /\ (pc = "idle" /\ result /\ layer_warnings(stats.layers) > 0
            /\ <<0, "saveas">> \notin arg.raises) => ret # <<>>

\* C12: a LINESTRING feature whose calls do not raise adds exactly one entity:
\* a LINE through its two coordinates when simplify_lines is on and it has
\* exactly 2 coordinates, a POLYLINE through all its coordinates otherwise.
C12_OneEntityPerLine ==
    Emitted =>
        \A i \in 1..Len(geometries) :
            (geometries[i].type = "LINESTRING" /\ ~Failed(i)) =>
                /\ Len(EntitiesOf(i)) = 1
                /\ EntitiesOf(i)[1].points = geometries[i].coordinates
                /\ EntitiesOf(i)[1].dxftype =
                       (IF arg.options.simplify_lines /\ Len(geometries[i].coordinates) = 2
                        THEN "LINE" ELSE "POLYLINE")

\* a two-coordinate line became a LINE and a longer one a POLYLINE in one run
C12_Witness ==
    /\ Emitted
    /\ arg.options.simplify_lines
    /\ \E i, j \in 1..Len(geometries) :
          /\ geometries[i].type = "LINESTRING" /\ Len(geometries[i].coordinates) = 2
          /\ geometries[j].type = "LINESTRING" /\ Len(geometries[j].coordinates) = 3
          /\ ~Failed(i) /\ ~Failed(j)
          /\ Len(TypedOf(i, "LINE")) = 1
          /\ Len(TypedOf(j, "POLYLINE")) = 1

HatchWanted(i) ==
    arg.options.create_hatch /\ geometries[i].type = "POLYGON" /\ geometries[i].style.filled

Closed(points) == points # <<>> /\ points[1] = points[Len(points)]

\* C13: a POLYGON feature whose calls do not raise adds one closed POLYLINE
\* and no HATCH, unless create_hatch is on and it is filled; when the hatch
\* calls raise, it still adds its POLYLINE and no HATCH with a boundary; a
\* POLYGON_HOLE adds one POLYLINE on its feature's layer and never a HATCH.
C13_PolygonPolyline ==
    Emitted =>
        \A i \in 1..Len(geometries) :
            /\ (geometries[i].type = "POLYGON" /\ ~Failed(i) /\ ~HatchWanted(i)) =>
                   /\ TypedOf(i, "HATCH") = <<>>
                   /\ Len(EntitiesOf(i)) = 1
                   /\ EntitiesOf(i)[1].dxftype = "POLYLINE"
                   /\ EntitiesOf(i)[1].points = geometries[i].coordinates
                   /\ Closed(EntitiesOf(i)[1].points)
            /\ (geometries[i].type = "POLYGON" /\ HatchWanted(i)
                    /\ <<i, "add_polyline3d">> \notin arg.raises
                    /\ (<<i, "add_hatch">> \in arg.raises
                            \/ <<i, "add_polyline_path">> \in arg.raises)) =>
                   /\ Len(TypedOf(i, "POLYLINE")) = 1
                   /\ \A k \in 1..Len(TypedOf(i, "HATCH")) : TypedOf(i, "HATCH")[k].points = <<>>
            /\ (geometries[i].type = "POLYGON_HOLE" /\ ~Failed(i)) =>
                   /\ Len(EntitiesOf(i)) = 1
                   /\ EntitiesOf(i)[1].dxftype = "POLYLINE"
                   /\ EntitiesOf(i)[1].dxfattribs.layer = layer_name_of(geometries[i].style)

\* str.lower() of the name is a placeholder, or the name is empty
Placeholder(name) ==
    name = <<>> \/ Lower(name) \in {<<"n", "o", "n", "e">>, <<"n", "u", "l", "l">>}

\* C14: a POINT feature whose calls do not raise adds one POINT entity at its
\* coordinate, on its layer and in its color, and one TEXT entity that reads
\* its name, the TEXT left out only for an empty or placeholder name.
C14_PointAndText ==
    Emitted =>
        \A i \in 1..Len(geometries) :
            (geometries[i].type = "POINT" /\ ~Failed(i)) =>
                /\ Len(TypedOf(i, "POINT")) = 1
                /\ TypedOf(i, "POINT")[1].points = geometries[i].coordinates
                /\ TypedOf(i, "POINT")[1].dxfattribs = PlainAttribs(geometries[i])
                /\ IF Placeholder(geometries[i].style.name)
                   THEN TypedOf(i, "TEXT") = <<>>
                   ELSE /\ Len(TypedOf(i, "TEXT")) = 1
                        /\ TypedOf(i, "TEXT")[1].text = geometries[i].style.name

\* the exception of a call for feature i reached the handler of lines 590-592
Skipped(i) ==
    IF HatchWanted(i) /\ Len(geometries[i].coordinates) >= 3
    THEN /\ <<i, "add_polyline3d">> \in arg.raises
         /\ <<i, "add_hatch">> \in arg.raises \/ <<i, "add_polyline_path">> \in arg.raises
    ELSE Failed(i)

\* C15: when the calls for one feature raise, create_dxf still returns a
\* drawing; it holds no point, line or polyline of that feature, and the
\* entities of every other feature, before and after it.
C15_BestEffort ==
    (pc = "idle" /\ result) =>
        \A i \in 1..Len(geometries) :
            Skipped(i) =>
                /\ ret # <<>>
                /\ \A t \in {"POINT", "LINE", "POLYLINE"} : TypedOf(i, t) = <<>>
                /\ \A j \in 1..Len(geometries) : j # i => EntitiesOf(j) # <<>>

\* the second of three features was skipped
C15_Witness ==
    /\ Emitted
    /\ Len(geometries) = 3
    /\ Skipped(2)
    /\ EntitiesOf(1) # <<>> /\ EntitiesOf(2) = <<>> /\ EntitiesOf(3) # <<>>

(***************************************************************************)
(* Properties of one press of Convert                                      *)
(***************************************************************************)
Uploaded == uploaded_file[1].content

\* C16: for a well-formed text with no Placemark element, no feature is
\* extracted, no error is shown, and a drawing with no entity is produced.
C16_EmptyDocumentConverts ==
    (pc = "idle" /\ Uploaded.markup = "well-formed"
         /\ FindAll(Uploaded.tree, "Placemark") = <<>>) =>
        /\ geometries = <<>>
        /\ page.error = ""
        /\ ret # <<>>
        /\ ret[1].entities = <<>>
        /\ session_state.dxf_bytes = ret

\* C17: for a text that is still ill-formed after the repair, parse_kml
\* returns False, self.geometries is empty, create_dxf is not called, the
\* failure is shown and no DXF is stored or offered.
C17_IllFormedAborts ==
    (pc \in {"done", "idle"} /\ Uploaded.markup = "ill-formed") =>
        /\ ~result
        /\ geometries = <<>>
        /\ arg = Uploaded
        /\ ret = <<>>
        /\ session_state = NewSession
        /\ page.download = <<>>
        /\ pc = "idle" => page.error = "Failed to parse KML file"

C17_Witness ==
    /\ pc = "idle"
    /\ Uploaded.markup = "ill-formed"
    /\ page.error = "Failed to parse KML file"
    /\ last_conversion # <<>>

(***************************************************************************)
(* The KML entry read from a KMZ archive                                   *)
(***************************************************************************)
MaxEntries == 3

DotKml == <<".", "k", "m", "l">>

DocKml == <<"d", "o", "c", ".", "k", "m", "l">>

\* lines 687-692: <<kml_file>>, or <<>> when the archive has no .kml entry.
\* list.sort is stable, with reverse=True too: the entries whose key is True
\* come first, each group in the order of the listing
kmz_kml_file(namelist) ==
    LET kml_files == SelectSeq(namelist, LAMBDA f : EndsWith(Lower(f), DotKml))
        sorted == SelectSeq(kml_files, LAMBDA x : Contains(Lower(x), DocKml))
                      \o SelectSeq(kml_files, LAMBDA x : ~Contains(Lower(x), DocKml))
    IN  IF kml_files # <<>> THEN <<sorted[1]>> ELSE <<>>

EntryNames ==
    {DocKml,
     <<"a", ".", "k", "m", "l">>,
     <<"m", "y", "d", "o", "c", ".", "k", "m", "l">>,
     <<"D", "o", "c", ".", "K", "M", "L">>,
     <<"z", "/", "d", "o", "c", ".", "k", "m", "l">>,
     <<"d", "o", "c", ".", "k", "m", "l", ".", "t", "x", "t">>,
     <<"b", ".", "p", "n", "g">>}

InitKmz ==
    /\ pc = "call"
    /\ arg \in SeqsUpTo(EntryNames, MaxEntries)
    /\ ret = <<>>
    /\ NoDocument
    /\ NoSession

CallKmzKmlFile ==
    /\ pc = "call"
    /\ ret' = kmz_kml_file(arg)
    /\ pc' = "returned"
    /\ UNCHANGED <<arg, docVars, uiVars>>

NextKmz == CallKmzKmlFile

SpecKmz == InitKmz /\ [][NextKmz]_vars

\* the part of an entry name after its last '/'
Basename(name) ==
    LET slashes == {k \in 1..Len(name) : name[k] = "/"}
    IN  IF slashes = {} THEN name
        ELSE SubSeq(name, (CHOOSE k \in slashes : \A j \in slashes : j <= k) + 1, Len(name))

\* an entry named doc.kml, in any letter case and any folder
NamedDocKml(name) == Lower(Basename(name)) = DocKml

KmlEntries(namelist) == SelectSeq(namelist, LAMBDA f : EndsWith(Lower(f), DotKml))

\* C18: when the listing has an entry named doc.kml, the entry read is one
\* named doc.kml; when it has none, the entry read is the first .kml entry of
\* the listing.
C18_DocKmlPreferred ==
    (pc = "returned" /\ KmlEntries(arg) # <<>>) =>
        /\ ret # <<>>
        /\ IF \E k \in 1..Len(arg) : NamedDocKml(arg[k])
           THEN NamedDocKml(ret[1])
           ELSE ret[1] = KmlEntries(arg)[1]

(***************************************************************************)
(* main over a session: a file is uploaded, removed or replaced, and       *)
(* Convert is pressed; every event runs the script once.  An uploaded file *)
(* is [name, content]; the content of a .kmz file is [zip, entries], zip   *)
(* FALSE for bytes that are no archive, entries the [name, content] of the *)
(* archive in listing order.                                               *)
(***************************************************************************)
IsKmz(file) == EndsWith(Lower(file.name), <<".", "k", "m", "z">>)

\* the listing of an archive
namelist_of(entries) == [k \in 1..Len(entries) |-> entries[k].name]

\* kmz.open(kml_file).read(): the last entry of that name
read_entry(entries, kml_file) ==
    entries[CHOOSE k \in 1..Len(entries) :
                /\ entries[k].name = kml_file
                /\ \A j \in 1..Len(entries) : entries[j].name = kml_file => j <= k].content

\* lines 679-702: <<file_content>>, or <<>> when main returns at 699 or 702
file_content(file) ==
    IF IsKmz(file)
    THEN IF file.content.zip /\ kmz_kml_file(namelist_of(file.content.entries)) # <<>>
         THEN <<read_entry(file.content.entries,
                           kmz_kml_file(namelist_of(file.content.entries))[1])>>
         ELSE <<>>
    ELSE <<file.content>>

\* lines 633-702 and 754-778: the page of a run in which Convert is not pressed
Render(ss, upload) ==
    IF upload = <<>>
    THEN [error |-> "", statistics |-> Sidebar(ss), download |-> <<>>]
    ELSE IF file_content(upload[1]) = <<>>
         THEN [error |-> IF upload[1].content.zip
                         THEN "No KML file found in KMZ archive"
                         ELSE "Error extracting KMZ",
               statistics |-> Sidebar(ss), download |-> <<>>]
    ELSE [error |-> "", statistics |-> Sidebar(ss),
          download |-> DownloadSection(ss, upload[1])]

File(name, content) == [name |-> name, content |-> content]

ScenarioA ==
    KmlDoc(KML22, <<PlacemarkEl(KML22, <<"A">>, <<>>,
                                <<PointEl(KML22, <<"1", "0", ",", "2", "0", ",", "0">>)>>)>>)

LineDoc == KmlDoc(KML22, <<PlacemarkEl(KML22, <<"B">>, <<>>, <<LineEl(KML22, Txt(2))>>)>>)

Uploads ==
    {File(<<"a", ".", "k", "m", "l">>, Content("well-formed", ScenarioA)),
     File(<<"b", ".", "k", "m", "l">>, Content("ill-formed", None)),
     File(<<"c", ".", "k", "m", "l">>, Content("well-formed", KmlDoc(KML22, <<>>))),
     File(<<"d", ".", "k", "m", "z">>,
          [zip |-> TRUE,
           entries |-> <<File(<<"x", ".", "k", "m", "l">>, Content("well-formed", ScenarioA)),
                         File(DocKml, Content("well-formed", LineDoc))>>]),
     File(<<"e", ".", "k", "m", "z">>,
          [zip |-> TRUE,
           entries |-> <<File(<<"b", ".", "p", "n", "g">>, Content("ill-formed", None))>>]),
     File(<<"f", ".", "K", "M", "Z">>, [zip |-> FALSE, entries |-> <<>>])}

InitMain ==
    /\ pc = "idle"
    /\ arg = <<>>
    /\ ret = <<>>
    /\ NoDocument
    /\ NoSession

\* a file is put in the uploader, in place of the one there
UploadFile ==
    /\ pc = "idle"
    /\ \E file \in Uploads :
          /\ uploaded_file # <<file>>
          /\ uploaded_file' = <<file>>
          /\ page' = Render(session_state, <<file>>)
    /\ UNCHANGED <<pc, arg, ret, docVars, session_state, last_conversion>>

\* the file is taken out of the uploader
RemoveFile ==
    /\ pc = "idle"
    /\ uploaded_file # <<>>
    /\ uploaded_file' = <<>>
    /\ page' = Render(session_state, <<>>)
    /\ UNCHANGED <<pc, arg, ret, docVars, session_state, last_conversion>>

\* lines 633-711: the run up to the call of parse_kml on a new converter
PressConvert ==
    /\ pc = "idle"
    /\ uploaded_file # <<>>
    /\ file_content(uploaded_file[1]) # <<>>
    /\ arg' = file_content(uploaded_file[1])[1]
    /\ ret' = <<>>
    /\ root' = None
    /\ placemarks' = <<>>
    /\ idx' = 0
    /\ geometries' = <<>>
    /\ stats' = NoStats
    /\ processed_count' = 0
    /\ result' = FALSE
    /\ marks' = <<>>
    /\ page' = [error |-> "", statistics |-> Sidebar(session_state), download |-> <<>>]
    /\ pc' = "fromstring"
    /\ UNCHANGED <<uploaded_file, session_state, last_conversion>>

NextMain ==
    \/ UploadFile
    \/ RemoveFile
    \/ PressConvert
    \/ FromString
    \/ FindPlacemarks
    \/ ProcessPlacemark
    \/ FinishParse
    \/ CreateDxf
    \/ ParseFailed

SpecMain == InitMain /\ [][NextMain]_vars

\* C19: whenever a run has ended with a DXF offered for download, the last
\* press of Convert was on the file now in the uploader and produced that
\* DXF, the file name offered is that file's, and the statistics shown are
\* those of that conversion.
C19_DownloadIsCurrent ==
    (pc = "idle" /\ page.download # <<>>) =>
        /\ uploaded_file # <<>>
        /\ last_conversion # <<>>
        /\ last_conversion[1].file = uploaded_file[1]
        /\ last_conversion[1].dxf_bytes = <<page.download[1].data>>
        /\ page.download[1].file_name = dxf_filename(uploaded_file[1].name)
        /\ page.statistics # <<>> => page.statistics[1] = last_conversion[1].statistics

====
